---- MODULE Spec2Model ----
(***************************************************************************)
(* DistSupervisedTrainer (tefla/core/learning_distributed.py).             *)
(*                                                                         *)
(* One process per worker task runs fit -> train.  The processes share the *)
(* state kept on the parameter servers by the framework: whether the       *)
(* variables have been initialized, global_step, and the two queues of the *)
(* synchronous-replicas optimizer (gradients, tokens).  The framework is   *)
(* an external collaborator: its calls are modelled by their contract      *)
(* (Supervisor: the chief initializes, the others wait; SyncReplicas-      *)
(* Optimizer: a training step enqueues a gradient and takes a token, the   *)
(* chief queue runner aggregates and refills the tokens), driven by the    *)
(* arguments this file passes to them.                                     *)
(***************************************************************************)
EXTENDS Integers, Sequences, FiniteSets, TLC

\* ------------------------------------------------------------------ bounds
MaxWorkers == 2
MaxIters == 2
MaxValIters == 1
MaxEpoch == 3
MaxStartEpoch == 2
MaxGlobalStep == 2
MaxUpdateOps == 2
MaxEvaluations == 2

\* ------------------------------------------------------- program constants
\* fit/train: num_replicas_to_aggregate=-1
DefaultReplicas == -1
\* cnf.get('max_steps', 10000000)
DefaultMaxSteps == 10000000
\* if step % 30 == 0
LogEvery == 30

VARIABLES
    args,              \* the arguments and configuration of the run
    pc,                \* each worker's position in fit/train
    error,             \* the exception that ended a worker, "" if none
    is_chief,          \* train's local is_chief
    start_epoch,       \* train's parameter start_epoch, as received
    opt,               \* the SyncReplicasOptimizer each worker built
    weights_from,      \* train's local weights_from: 0 is unbound
    weights_loaded,    \* the checkpoint epoch _load_weights loaded, 0 if none
    epoch,             \* train's local epoch
    iteration,         \* iterations of the training for-loop completed
    val_iteration,     \* iterations of the validation for-loop completed
    broke,             \* the training for-loop was left by break
    fmt_bound,         \* locals format_str / examples_per_sec are bound
    training_history,  \* train's local training_history (epoch numbers)
    saves,             \* the number of saver.save calls of each worker
    train_steps,       \* sess.run(train_op) calls completed by each worker
    cleanups,          \* sess.run(clean_up_op) calls of each worker
    token_inits,       \* sess.run(init_tokens_op) calls of each worker
    initialized_by,    \* the workers whose Supervisor ran init_op
    global_step,       \* the shared global_step variable
    tokens,            \* the size of the shared sync token queue
    grads,             \* the size of the shared gradient queue
    runner,            \* the chief queue runner thread is running
    last_aggregated,   \* gradients consumed by the latest variable update
    cto,               \* create_train_op's arguments and the graph's collections
    cto_pc,            \* "new", "built" (the train tensor exists) or "error"
    ran,               \* the ops run so far by the current evaluation
    evaluations        \* completed evaluations of the train tensor

vars == <<args, pc, error, is_chief, start_epoch, opt, weights_from,
          weights_loaded, epoch, iteration, val_iteration, broke, fmt_bound,
          training_history, saves, train_steps, cleanups, token_inits,
          initialized_by, global_step, tokens, grads, runner, last_aggregated,
          cto, cto_pc, ran, evaluations>>

train_vars == <<args, pc, error, is_chief, start_epoch, opt, weights_from,
                weights_loaded, epoch, iteration, val_iteration, broke,
                fmt_bound, training_history, saves, train_steps, cleanups,
                token_inits, initialized_by, global_step, tokens, grads, runner,
                last_aggregated>>

cto_vars == <<cto, cto_pc, ran, evaluations>>

Max(a, b) == IF a >= b THEN a ELSE b

\* The task ids of a cluster of n workers.
TaskIds == 0 .. (MaxWorkers - 1)
Workers == 0 .. (args.num_workers - 1)

\* ------------------------------------------------------------ pure helpers

\* fit calls train with the literal start_epoch=1, whatever it was given.
fit_start_epoch(given) == 1

\* fit calls train with the literal num_replicas_to_aggregate=-1.
fit_num_replicas_to_aggregate(given) == -1

\* train: num_replicas_to_aggregate = num_workers if it is -1.
train_num_replicas_to_aggregate(given, num_workers) ==
    IF given = -1 THEN num_workers ELSE given

\* train calls _setup_model_loss with the literal num_replicas_to_aggregate=-1,
\* not with the value it has just computed.
setup_model_loss_replicas(computed) == -1

\* is_chief = (task_id == 0)
IsChief(task_id) == task_id = 0

\* _setup_model_loss: tf.train.SyncReplicasOptimizer(opt, replicas_to_aggregate=
\* num_replicas_to_aggregate, replica_id=task_id, total_num_replicas=num_workers)
SyncReplicasOptimizer(num_replicas_to_aggregate, task_id, num_workers) ==
    [replicas_to_aggregate |-> num_replicas_to_aggregate,
     replica_id            |-> task_id,
     total_num_replicas    |-> num_workers]

NoOptimizer == [replicas_to_aggregate |-> 0, replica_id |-> 0,
                total_num_replicas |-> 0]

\* The optimizer's tokens per step.
TokensPerStep(o) == Max(o.total_num_replicas, o.replicas_to_aggregate)

\* A loop that runs one iteration too many.
RangeDone_OneMore(i, n) == i >= n + 1

\* for iteration in range(n): the loop is over after n iterations.
RangeDone(i, n) == i >= n

\* ----------------------------------------------------------- fit and train

\* What a run is given: the cluster, the entry point (fit, or train called
\* directly, which reads no feature_keys) and its arguments, the dataset's
\* sizes and the cnf entries read.
Inputs ==
    [num_workers   : 1 .. MaxWorkers,
     via_fit       : {TRUE},
     feature_keys  : BOOLEAN,
     start_epoch   : 1 .. MaxStartEpoch,
     num_replicas_to_aggregate : {DefaultReplicas, 1},
     n_iters       : 1 .. MaxIters,
     n_val_iters   : 1 .. MaxValIters,
     num_epochs    : {MaxEpoch - 2},
     max_steps     : {1, DefaultMaxSteps},
     cnf_callable  : BOOLEAN]
    \cup
    [num_workers   : 1 .. MaxWorkers,
     via_fit       : {FALSE},
     feature_keys  : {FALSE},
     start_epoch   : 1 .. MaxStartEpoch,
     num_replicas_to_aggregate : {DefaultReplicas, 1},
     n_iters       : 1 .. MaxIters,
     n_val_iters   : 1 .. MaxValIters,
     num_epochs    : {MaxEpoch - 2},
     max_steps     : {1, DefaultMaxSteps},
     cnf_callable  : BOOLEAN]

\* create_train_op has not been called.
CtoIdle ==
    /\ cto = [n_update_ops |-> 0, update_ops |-> <<>>, trainable |-> TRUE,
              clip_grad_global_norm |-> FALSE, gradient_multipliers |-> FALSE]
    /\ cto_pc = "new"
    /\ ran = {}
    /\ evaluations = 0

TrainInit(a) ==
    /\ args = a
    /\ pc = [w \in TaskIds |-> "start"]
    /\ error = [w \in TaskIds |-> ""]
    /\ is_chief = [w \in TaskIds |-> FALSE]
    /\ start_epoch = [w \in TaskIds |-> 0]
    /\ opt = [w \in TaskIds |-> NoOptimizer]
    /\ weights_from = [w \in TaskIds |-> 0]
    /\ weights_loaded = [w \in TaskIds |-> 0]
    /\ epoch = [w \in TaskIds |-> 0]
    /\ iteration = [w \in TaskIds |-> 0]
    /\ val_iteration = [w \in TaskIds |-> 0]
    /\ broke = [w \in TaskIds |-> FALSE]
    /\ fmt_bound = [w \in TaskIds |-> FALSE]
    /\ training_history = [w \in TaskIds |-> <<>>]
    /\ saves = [w \in TaskIds |-> 0]
    /\ train_steps = [w \in TaskIds |-> 0]
    /\ cleanups = [w \in TaskIds |-> 0]
    /\ token_inits = [w \in TaskIds |-> 0]
    /\ initialized_by = {}
    /\ global_step = 0
    /\ tokens = 0
    /\ grads = 0
    /\ runner = FALSE
    /\ last_aggregated = 0

Init ==
    /\ \E a \in Inputs : TrainInit(a)
    /\ CtoIdle

\* A worker's process ends with an exception: its threads end with it.
Die(w, exc) ==
    /\ pc' = [pc EXCEPT ![w] = "error"]
    /\ error' = [error EXCEPT ![w] = exc]
    /\ runner' = IF is_chief[w] THEN FALSE ELSE runner

\* Everything but the listed per-worker and shared variables stays as it is.
Frame(changed) ==
    /\ UNCHANGED <<args, cto_vars>>
    /\ IF "start_epoch" \in changed THEN TRUE ELSE UNCHANGED <<start_epoch, is_chief, opt>>
    /\ IF "weights" \in changed THEN TRUE ELSE UNCHANGED <<weights_from, weights_loaded>>
    /\ IF "epoch" \in changed THEN TRUE ELSE UNCHANGED epoch
    /\ IF "loops" \in changed THEN TRUE ELSE UNCHANGED <<iteration, val_iteration, broke>>
    /\ IF "fmt" \in changed THEN TRUE ELSE UNCHANGED fmt_bound
    /\ IF "history" \in changed THEN TRUE ELSE UNCHANGED training_history
    /\ IF "saves" \in changed THEN TRUE ELSE UNCHANGED saves
    /\ IF "train_steps" \in changed THEN TRUE ELSE UNCHANGED train_steps
    /\ IF "cleanups" \in changed THEN TRUE ELSE UNCHANGED cleanups
    /\ IF "token_inits" \in changed THEN TRUE ELSE UNCHANGED token_inits
    /\ IF "init" \in changed THEN TRUE ELSE UNCHANGED initialized_by
    /\ IF "global_step" \in changed THEN TRUE ELSE UNCHANGED <<global_step, last_aggregated>>
    /\ IF "queues" \in changed THEN TRUE ELSE UNCHANGED <<tokens, grads>>

\* fit (lines 89-96) and train up to the session configuration (150-199).
\* _setup_data_ops assigns features_keys only when feature_keys is None and
\* reads it either way (99-106).  The assertion of line 157 holds of every
\* cluster drawn here.  The session configuration calls self.cnf (199).
Setup(w) ==
    /\ pc[w] = "start"
    /\ LET se == IF args.via_fit THEN fit_start_epoch(args.start_epoch)
                 ELSE args.start_epoch
           nra == train_num_replicas_to_aggregate(
                      IF args.via_fit
                      THEN fit_num_replicas_to_aggregate(args.num_replicas_to_aggregate)
                      ELSE args.num_replicas_to_aggregate,
                      args.num_workers)
       IN IF args.via_fit /\ args.feature_keys
          THEN /\ Die(w, "NameError")
               /\ UNCHANGED <<start_epoch, is_chief, opt>>
          ELSE /\ start_epoch' = [start_epoch EXCEPT ![w] = se]
               /\ is_chief' = [is_chief EXCEPT ![w] = IsChief(w)]
               /\ opt' = [opt EXCEPT ![w] =
                     SyncReplicasOptimizer(setup_model_loss_replicas(nra), w,
                                           args.num_workers)]
               /\ IF args.cnf_callable
                  THEN /\ pc' = [pc EXCEPT ![w] = "session"]
                       /\ UNCHANGED <<error, runner>>
                  ELSE Die(w, "TypeError")
    /\ Frame({"start_epoch"})

\* A Supervisor told that every worker is the chief: nobody waits.
SessionReady_NoWait(w) == TRUE

\* Supervisor(is_chief=is_chief, init_op=init_op).prepare_or_wait_for_session:
\* the chief's session is ready at once (it runs init_op itself); any other
\* worker's is ready once the variables have been initialized.
SessionReady(w) == is_chief[w] \/ initialized_by # {}

\* sv.prepare_or_wait_for_session and the input queue runners (lines 201-208);
\* a worker that is not the chief skips the chief's block (210) and sets up the
\* loop's locals (220-223).
PrepareOrWaitForSession(w) ==
    /\ pc[w] = "session"
    /\ SessionReady(w)
    /\ initialized_by' = IF is_chief[w] THEN initialized_by \cup {w}
                         ELSE initialized_by
    /\ IF is_chief[w]
       THEN /\ pc' = [pc EXCEPT ![w] = "chief_tokens"]
            /\ UNCHANGED epoch
       ELSE /\ pc' = [pc EXCEPT ![w] = "while"]
            /\ epoch' = [epoch EXCEPT ![w] = 1]
    /\ UNCHANGED <<error, runner>>
    /\ Frame({"init", "epoch"})

\* if is_chief: sv.start_queue_runners(sess, chief_queue_runners);
\*              sess.run(init_tokens_op)                       (lines 210-212)
ChiefTokens(w) ==
    /\ pc[w] = "chief_tokens"
    /\ runner' = TRUE
    /\ tokens' = tokens + TokensPerStep(opt[w])
    /\ token_inits' = [token_inits EXCEPT ![w] = @ + 1]
    /\ pc' = [pc EXCEPT ![w] = "chief_load"]
    /\ UNCHANGED <<error, grads>>
    /\ Frame({"token_inits", "queues"})

\* if start_epoch > 1: weights_from = "weights/model-epoch-%d.ckpt" % (start_epoch - 1)
\* if weights_from: self._load_weights(sess, saver, weights_from)   (lines 213-218)
\* then the loop's locals (220-223).  weights_from is assigned nowhere else: with
\* start_epoch <= 1 reading it raises UnboundLocalError, outside the try block.
ChiefLoad(w) ==
    /\ pc[w] = "chief_load"
    /\ LET wf == IF start_epoch[w] > 1 THEN start_epoch[w] - 1 ELSE weights_from[w]
       IN /\ weights_from' = [weights_from EXCEPT ![w] = wf]
          /\ IF wf = 0
             THEN /\ Die(w, "UnboundLocalError weights_from")
                  /\ UNCHANGED <<weights_loaded, epoch>>
             ELSE /\ weights_loaded' = [weights_loaded EXCEPT ![w] = wf]
                  /\ epoch' = [epoch EXCEPT ![w] = 1]
                  /\ pc' = [pc EXCEPT ![w] = "while"]
                  /\ UNCHANGED <<error, runner>>
    /\ Frame({"weights", "epoch"})

\* An exception inside train's try block: the handler runs clean_up_op and
\* re-raises (lines 329-334).
Raise(w, exc) ==
    /\ Die(w, exc)
    /\ cleanups' = [cleanups EXCEPT ![w] = @ + 1]

\* while not sv.should_stop(): the Supervisor's answer is the environment's
\* (a stop request, the end of the input).  Entering the body starts an epoch
\* (lines 224-229).
While(w) ==
    /\ pc[w] = "while"
    /\ \E should_stop \in BOOLEAN :
          IF should_stop
          THEN /\ pc' = [pc EXCEPT ![w] = "after_loop"]
               /\ UNCHANGED <<iteration, val_iteration, broke>>
          ELSE /\ epoch[w] < MaxEpoch
               /\ pc' = [pc EXCEPT ![w] = "train"]
               /\ iteration' = [iteration EXCEPT ![w] = 0]
               /\ val_iteration' = [val_iteration EXCEPT ![w] = 0]
               /\ broke' = [broke EXCEPT ![w] = FALSE]
    /\ UNCHANGED <<error, runner>>
    /\ Frame({"loops"})

\* One iteration of the training for-loop (lines 229-265), and what follows the
\* loop up to the validation loop (266-274).  sess.run([train_op, global_step])
\* enqueues the worker's gradient and returns once it has taken a token.
TrainStep(w) ==
    /\ pc[w] = "train"
    /\ ~RangeDone(iteration[w], args.n_iters)
    /\ tokens > 0
    /\ tokens' = tokens - 1
    /\ grads' = grads + 1
    /\ train_steps' = [train_steps EXCEPT ![w] = @ + 1]
    /\ \E loss_is_nan \in BOOLEAN :
         LET step == global_step
             bound == fmt_bound[w] \/ step % LogEvery = 0
         IN  IF loss_is_nan
             THEN \* assert not np.isnan(loss_value)
                  /\ Raise(w, "AssertionError")
                  /\ UNCHANGED <<iteration, val_iteration, broke, fmt_bound>>
             ELSE IF step > args.max_steps
             THEN \* break; np.average of no losses divides by zero
                  /\ broke' = [broke EXCEPT ![w] = TRUE]
                  /\ UNCHANGED <<iteration, val_iteration, fmt_bound>>
                  /\ IF iteration[w] = 0
                     THEN Raise(w, "ZeroDivisionError")
                     ELSE /\ pc' = [pc EXCEPT ![w] = "val"]
                          /\ UNCHANGED <<error, runner, cleanups>>
             ELSE IF ~bound
             THEN \* log.info(format_str % ...) with format_str never assigned
                  /\ Raise(w, "UnboundLocalError format_str")
                  /\ UNCHANGED <<iteration, val_iteration, broke, fmt_bound>>
             ELSE /\ fmt_bound' = [fmt_bound EXCEPT ![w] = TRUE]
                  /\ iteration' = [iteration EXCEPT ![w] = @ + 1]
                  /\ pc' = [pc EXCEPT ![w] =
                        IF RangeDone(iteration[w] + 1, args.n_iters)
                        THEN "val" ELSE "train"]
                  /\ UNCHANGED <<val_iteration, broke, error, runner, cleanups>>
    /\ Frame({"queues", "train_steps", "loops", "fmt", "cleanups"})

\* One iteration of the validation for-loop (lines 275-295).
ValStep(w) ==
    /\ pc[w] = "val"
    /\ ~RangeDone(val_iteration[w], args.n_val_iters)
    /\ val_iteration' = [val_iteration EXCEPT ![w] = @ + 1]
    /\ pc' = [pc EXCEPT ![w] =
          IF RangeDone(val_iteration[w] + 1, args.n_val_iters)
          THEN "epoch_end" ELSE "val"]
    /\ UNCHANGED <<iteration, broke, error, runner>>
    /\ Frame({"loops"})

\* A save that is not guarded by is_chief.
SavesCheckpoint_Unguarded(w) == TRUE

\* if is_chief: saver.save(...)
SavesCheckpoint(w) == is_chief[w]

\* The end of an epoch (lines 297-328): the chief saves a checkpoint, the
\* epoch's entry is appended to training_history, epoch += 1.
EpochEnd(w) ==
    /\ pc[w] = "epoch_end"
    /\ saves' = [saves EXCEPT ![w] = IF SavesCheckpoint(w) THEN @ + 1 ELSE @]
    /\ training_history' = [training_history EXCEPT ![w] = Append(@, epoch[w])]
    /\ epoch' = [epoch EXCEPT ![w] = @ + 1]
    /\ pc' = [pc EXCEPT ![w] = "while"]
    /\ UNCHANGED <<error, runner>>
    /\ Frame({"saves", "history", "epoch"})

\* After the loop (lines 336-344): sv.stop(), coord.request_stop(), and the
\* chief's final saver.save.
AfterLoop(w) ==
    /\ pc[w] = "after_loop"
    /\ saves' = [saves EXCEPT ![w] = IF SavesCheckpoint(w) THEN @ + 1 ELSE @]
    /\ runner' = IF is_chief[w] THEN FALSE ELSE runner
    /\ pc' = [pc EXCEPT ![w] = "done"]
    /\ UNCHANGED error
    /\ Frame({"saves"})

\* The chief queue runner, started by the chief (line 211), for the optimizer
\* the chief built (434-435): once replicas_to_aggregate gradients are queued it
\* takes them, applies one update (global_step += 1) and puts tokens_per_step
\* tokens into the token queue.
Aggregate(w) ==
    /\ is_chief[w]
    /\ runner
    /\ global_step < MaxGlobalStep
    /\ grads >= opt[w].replicas_to_aggregate
    /\ last_aggregated' = Max(opt[w].replicas_to_aggregate, 0)
    /\ grads' = grads - Max(opt[w].replicas_to_aggregate, 0)
    /\ global_step' = global_step + 1
    /\ tokens' = tokens + TokensPerStep(opt[w])
    /\ UNCHANGED <<pc, error, runner>>
    /\ Frame({"global_step", "queues"})

\* One process per worker; the chief's process also runs the queue runner.
DoSetup == \E w \in Workers : Setup(w)
DoPrepareOrWaitForSession == \E w \in Workers : PrepareOrWaitForSession(w)
DoChiefTokens == \E w \in Workers : ChiefTokens(w)
DoChiefLoad == \E w \in Workers : ChiefLoad(w)
DoWhile == \E w \in Workers : While(w)
DoTrainStep == \E w \in Workers : TrainStep(w)
DoValStep == \E w \in Workers : ValStep(w)
DoEpochEnd == \E w \in Workers : EpochEnd(w)
DoAfterLoop == \E w \in Workers : AfterLoop(w)
DoAggregate == \E w \in Workers : Aggregate(w)

Next ==
    \/ DoSetup
    \/ DoPrepareOrWaitForSession
    \/ DoChiefTokens
    \/ DoChiefLoad
    \/ DoWhile
    \/ DoTrainStep
    \/ DoValStep
    \/ DoEpochEnd
    \/ DoAfterLoop
    \/ DoAggregate

Spec == Init /\ [][Next]_vars

\* ------------------------------------------------------- create_train_op

\* The ops of tf.GraphKeys.UPDATE_OPS.
Collection(n) == {<<"update_op", i>> : i \in 1 .. n}

\* update_ops as create_train_op is given it: <<>> for None, else <<S>> for
\* the list S.
None == <<>>

\* if update_ops is None: update_ops = global_update_ops
\* else: update_ops = set(update_ops)
UpdateOps(update_ops, global_update_ops) ==
    IF update_ops = None THEN global_update_ops ELSE update_ops[1]

\* if update_ops: total_loss = with_dependencies([barrier], total_loss), the
\* barrier a no_op under control_dependencies(update_ops).
BarrierDeps(update_ops) == update_ops

\* total_loss left without the barrier.
TotalLossDeps_NoBarrier(update_ops) == {<<"loss", 0>>}

TotalLossDeps(update_ops) ==
    IF update_ops # {}
    THEN {<<"update_barrier", 0>>, <<"loss", 0>>}
    ELSE {<<"loss", 0>>}

\* The train tensor computes grad_updates before it returns total_loss.
TrainTensorDeps == {<<"grad_updates", 0>>, <<"check_numerics", 0>>}

\* The control and data inputs of each op of the graph create_train_op builds.
Deps(c, op) ==
    LET update_ops == UpdateOps(c.update_ops, Collection(c.n_update_ops))
        grads_and_vars == IF c.gradient_multipliers
                          THEN <<"multiply_gradients", 0>>
                          ELSE <<"clip_gradients", 0>>
    IN  CASE op[1] = "update_op" -> {}
          [] op[1] = "loss" -> {}
          [] op[1] = "update_barrier" -> BarrierDeps(update_ops)
          [] op[1] = "total_loss" -> TotalLossDeps(update_ops)
          [] op[1] = "compute_gradients" -> {<<"total_loss", 0>>}
          [] op[1] = "clip_gradients" -> {<<"compute_gradients", 0>>}
          [] op[1] = "multiply_gradients" -> {<<"clip_gradients", 0>>}
          [] op[1] = "grad_updates" -> {grads_and_vars}
          [] op[1] = "check_numerics" -> {<<"total_loss", 0>>}
          [] op[1] = "train_tensor" -> TrainTensorDeps

Ops(c) ==
    Collection(c.n_update_ops) \cup
    {<<n, 0>> : n \in {"loss", "update_barrier", "total_loss",
                       "compute_gradients", "clip_gradients",
                       "multiply_gradients", "grad_updates", "check_numerics",
                       "train_tensor"}}

\* The ops an evaluation of op runs: op and everything it depends on.
RECURSIVE Needed(_, _, _)
Needed(c, frontier, seen) ==
    LET more == UNION {Deps(c, o) : o \in frontier} \ (seen \cup frontier)
    IN  IF frontier = {} THEN seen
        ELSE Needed(c, more, seen \cup frontier)

TrainTensor == <<"train_tensor", 0>>

CtoInputs ==
    UNION {[n_update_ops : {n},
            update_ops : {None} \cup {<<S>> : S \in SUBSET Collection(n)},
            trainable : BOOLEAN,
            clip_grad_global_norm : BOOLEAN,
            gradient_multipliers : BOOLEAN] : n \in 0 .. MaxUpdateOps}

\* create_train_op (lines 438-512): assert variables_to_train fails when the
\* model has no trainable variable.
CreateTrainOp ==
    /\ cto_pc = "new"
    /\ cto_pc' = IF cto.trainable THEN "built" ELSE "error"
    /\ UNCHANGED <<cto, ran, evaluations, train_vars>>

\* sess.run of the train tensor runs, in any order its inputs allow, the ops the
\* tensor depends on.
RunOp ==
    /\ cto_pc = "built"
    /\ evaluations < MaxEvaluations
    /\ \E op \in Needed(cto, {TrainTensor}, {}) \ ran :
          /\ Deps(cto, op) \subseteq ran
          /\ ran' = ran \cup {op}
    /\ UNCHANGED <<cto, cto_pc, evaluations, train_vars>>

\* sess.run returns the value of the train tensor; the next call starts anew.
Return ==
    /\ cto_pc = "built"
    /\ TrainTensor \in ran
    /\ ran' = {}
    /\ evaluations' = evaluations + 1
    /\ UNCHANGED <<cto, cto_pc, train_vars>>

CtoInit ==
    /\ TrainInit([num_workers |-> 1, via_fit |-> TRUE, feature_keys |-> FALSE,
                  start_epoch |-> 1,
                  num_replicas_to_aggregate |-> DefaultReplicas, n_iters |-> 1,
                  n_val_iters |-> 1, num_epochs |-> 1,
                  max_steps |-> DefaultMaxSteps, cnf_callable |-> TRUE])
    /\ cto \in CtoInputs
    /\ cto_pc = "new"
    /\ ran = {}
    /\ evaluations = 0

CtoNext == CreateTrainOp \/ RunOp \/ Return

CtoSpec == CtoInit /\ [][CtoNext]_vars

\* ------------------------------------------------------------------ claims

\* The positions of train after prepare_or_wait_for_session has returned and
\* the chief's block is behind.
InLoop == {"while", "train", "val", "epoch_end", "after_loop", "done"}

\* The worker has entered train and is past line 182: is_chief and opt are set.
InTrain(w) == pc[w] # "start" /\ error[w] # "NameError"

\* C1: with num_replicas_to_aggregate left at -1, every worker's synchronous
\* optimizer is configured to aggregate exactly num_workers replicas, and every
\* variable update (increment of global_step) consumed num_workers gradients.
C1_SyncAggregation ==
    args.num_replicas_to_aggregate = DefaultReplicas =>
        /\ \A w \in Workers :
              InTrain(w) => opt[w].replicas_to_aggregate = args.num_workers
        /\ global_step > 0 => last_aggregated = args.num_workers

\* C2: a worker is chief iff its task id is 0, and no worker with task id # 0
\* ever executes saver.save, neither at an epoch's end nor after the loop.
C2_ChiefOnlySaves ==
    \A w \in Workers :
        /\ InTrain(w) => (is_chief[w] <=> w = 0)
        /\ w # 0 => saves[w] = 0

\* C2's case: the chief has saved, and a worker that is not the chief has
\* completed an epoch and left train without saving.
C2_Witness ==
    /\ saves[0] > 0
    /\ \E w \in Workers :
          w # 0 /\ pc[w] = "done" /\ Len(training_history[w]) > 0

\* C3: no worker other than the chief is past prepare_or_wait_for_session, let
\* alone has run a training step, before the chief (task 0) has run init_op.
C3_WorkersWaitForChief ==
    \A w \in Workers :
        (w # 0 /\ (train_steps[w] > 0 \/ pc[w] \in InLoop))
            => 0 \in initialized_by

\* C3's case: a worker that is not the chief has run a training step.
C3_Witness == \E w \in Workers : w # 0 /\ train_steps[w] > 0

\* C4: when fit is given start_epoch = k > 1, the chief has loaded checkpoint
\* model-epoch-(k-1) once it is past its loading block, and before any worker
\* has run a training step.
C4_ResumeFromStartEpoch ==
    (args.via_fit /\ args.start_epoch > 1) =>
        \A w \in Workers :
            /\ train_steps[w] > 0 => weights_loaded[0] = args.start_epoch - 1
            /\ (is_chief[w] /\ token_inits[w] > 0 /\ pc[w] # "chief_load")
                  => weights_loaded[w] = args.start_epoch - 1

\* C5: a chief running train with start_epoch = 1 loads no weights and is never
\* in an error state between its token initialization and its first training
\* step: it reaches the training loop.
C5_FreshStart ==
    \A w \in Workers :
        (is_chief[w] /\ start_epoch[w] = 1 /\ token_inits[w] > 0)
            => /\ weights_loaded[w] = 0
               /\ train_steps[w] = 0 => pc[w] # "error"

\* C6: the loop of train completes at most num_epochs epochs: in every state
\* epoch <= num_epochs + 1.
C6_MaxEpochs ==
    \A w \in Workers :
        /\ epoch[w] <= args.num_epochs + 1
        /\ Len(training_history[w]) <= args.num_epochs

C8_EpochOrder ==
    /\ [](\A w \in Workers :
            val_iteration[w] > 0 =>
                (broke[w] \/ iteration[w] = args.n_iters))
    /\ [][\A w \in Workers :
            (epoch[w] >= 1 /\ epoch'[w] # epoch[w]) =>
                /\ ~broke[w] => iteration[w] = args.n_iters
                /\ val_iteration[w] = args.n_val_iters
                /\ saves'[w] = saves[w] + (IF w = 0 THEN 1 ELSE 0)
                /\ training_history'[w] = Append(training_history[w], epoch[w])
                /\ epoch'[w] = epoch[w] + 1]_vars

\* C8's case: the chief and another worker have each completed an epoch of two
\* training steps without a break.
C8_Witness ==
    /\ args.n_iters = 2
    /\ \E w \in Workers :
          /\ w # 0
          /\ Len(training_history[w]) > 0
          /\ ~broke[w]
    /\ Len(training_history[0]) > 0
    /\ saves[0] > 0

\* C9: only the chief runs init_tokens_op, exactly once and before its first
\* training step, and no worker that has got as far as its session is lost
\* before its first training step: every worker can still complete its first
\* synchronous training step.
C9_ChiefTokenInit ==
    \A w \in Workers :
        /\ token_inits[w] > 0 => w = 0
        /\ token_inits[w] <= 1
        /\ (w = 0 /\ train_steps[w] > 0) => token_inits[w] = 1
        /\ (pc[w] = "error" /\ train_steps[w] = 0) => error[w] \in {"NameError", "TypeError"}
====
